---- MODULE Spec2Model ----
(***************************************************************************)
(* Keyword validation for the Vasp calculator (vasp/validate.py) and the   *)
(* method-injection decorator (vasp/monkeypatch.py).                       *)
(*                                                                         *)
(* A Python value is a record [kind, num, str, items, keys]:               *)
(*   kind   the Python type: "int", "float", "bool", "str", "list",        *)
(*          "dict", "NoneType" or "Atoms" (an ase.atoms.Atoms object);     *)
(*   num    the number of an int, a float (integral floats only) or a      *)
(*          bool (True is 1 and False is 0, as in Python);                 *)
(*   str    the characters of a str;                                       *)
(*   items  the elements of a list;                                        *)
(*   keys   the keys of a dict.                                            *)
(* A rule assert-fails or raises (ok = FALSE) or returns (ok = TRUE); its  *)
(* result also carries the advisories it issued (print, warnings.warn)     *)
(* and calc.parameters as the rule leaves it.                              *)
(***************************************************************************)
EXTENDS Integers, Sequences, FiniteSets, TLC

VARIABLES
    parameters,     \* calc.parameters: keyword -> stored value
    atom_symbols,   \* the chemical symbols of calc.get_atoms() / calc.atoms
    neb,            \* calc.neb: the images of a nudged elastic band
    valence,        \* calc.get_valence_electrons()
    pc,             \* the caller: "idle", or "done" after a rule returned or raised
    rule,           \* name of the rule called last ("" when idle)
    value,          \* the value it was called with
    ok,             \* TRUE when it returned, FALSE when it raised
    adv,            \* the advisories it issued
    again,          \* TRUE when the last call repeated the one before it
    attrs,          \* class -> attribute name -> the function it is bound to
    doc,            \* function -> its __doc__
    applied,        \* the (class, function) the decorator was applied to last
    returned,       \* what the decorator returned last ("" before any call)
    npatch,         \* number of decorator applications so far
    scan,           \* introspection: position in dir(validate), 0 when not running
    helper,         \* introspection: the helper running or run last ("" is none)
    functions,      \* introspection: the names of the functions collected so far
    output          \* introspection: the tokens of the helper's returned string

vars == <<parameters, atom_symbols, neb, valence, pc, rule, value, ok, adv, again,
          attrs, doc, applied, returned, npatch, scan, helper, functions, output>>

calcVars == <<parameters, atom_symbols, neb, valence>>
callVars == <<pc, rule, value, ok, adv, again>>
patchVars == <<attrs, doc, applied, returned, npatch>>
introVars == <<scan, helper, functions, output>>

(***************************************************************************)
(* Bounds of the model.                                                    *)
(***************************************************************************)
MaxAtoms == 2
MaxPatches == 3

(***************************************************************************)
(* Python values.                                                          *)
(***************************************************************************)
PyInt(n) == [kind |-> "int", num |-> n, str |-> <<>>, items |-> <<>>, keys |-> {}]
PyFloat(n) == [kind |-> "float", num |-> n, str |-> <<>>, items |-> <<>>, keys |-> {}]
PyBool(b) == [kind |-> "bool", num |-> IF b THEN 1 ELSE 0, str |-> <<>>, items |-> <<>>, keys |-> {}]
PyStr(s) == [kind |-> "str", num |-> 0, str |-> s, items |-> <<>>, keys |-> {}]
PyList(xs) == [kind |-> "list", num |-> 0, str |-> <<>>, items |-> xs, keys |-> {}]
PyDict(ks) == [kind |-> "dict", num |-> 0, str |-> <<>>, items |-> <<>>, keys |-> ks]
NoneVal == [kind |-> "NoneType", num |-> 0, str |-> <<>>, items |-> <<>>, keys |-> {}]
AtomsObj == [kind |-> "Atoms", num |-> 0, str |-> <<>>, items |-> <<>>, keys |-> {}]

\* isinstance(val, int): bool is a subclass of int.
IsInt(val) == val.kind \in {"int", "bool"}
IsFloat(val) == val.kind = "float"
IsStr(val) == val.kind = "str"
IsList(val) == val.kind = "list"
IsDict(val) == val.kind = "dict"
\* The kinds Python orders against a number (val > 0, val < 10); any other
\* kind raises TypeError.
IsNumber(val) == val.kind \in {"int", "float", "bool"}

\* a == b for the values of the model: numbers compare by value across int,
\* float and bool; everything else only with its own kind.
PyEq(a, b) ==
    IF IsNumber(a) /\ IsNumber(b) THEN a.num = b.num
    ELSE a = b

\* val in [x1, ..., xn]
PyIn(val, xs) == \E i \in 1..Len(xs) : PyEq(val, xs[i])

\* Whether len(val) is defined, and its value.
HasLen(val) == val.kind \in {"str", "list", "dict"}
PyLen(val) ==
    CASE val.kind = "str" -> Len(val.str)
      [] val.kind = "list" -> Len(val.items)
      [] val.kind = "dict" -> Cardinality(val.keys)
      [] OTHER -> 0

ToLower ==
    "A" :> "a" @@ "B" :> "b" @@ "C" :> "c" @@ "D" :> "d" @@ "E" :> "e" @@
    "F" :> "f" @@ "G" :> "g" @@ "H" :> "h" @@ "I" :> "i" @@ "J" :> "j" @@
    "K" :> "k" @@ "L" :> "l" @@ "M" :> "m" @@ "N" :> "n" @@ "O" :> "o" @@
    "P" :> "p" @@ "Q" :> "q" @@ "R" :> "r" @@ "S" :> "s" @@ "T" :> "t" @@
    "U" :> "u" @@ "V" :> "v" @@ "W" :> "w" @@ "X" :> "x" @@ "Y" :> "y" @@
    "Z" :> "z"

\* str.lower(), on the characters.
Lower(s) == [i \in 1..Len(s) |-> IF s[i] \in DOMAIN ToLower THEN ToLower[s[i]] ELSE s[i]]

(***************************************************************************)
(* The statements a rule is made of.  A result is what running them gave:  *)
(* ok, the advisories issued, and calc.parameters afterwards.              *)
(***************************************************************************)
\* assert cond
Check(calc, cond) == [ok |-> cond, adv |-> <<>>, parameters |-> calc.parameters]
\* an expression that raises (TypeError, AttributeError, ValueError)
Raise(calc) == [ok |-> FALSE, adv |-> <<>>, parameters |-> calc.parameters]
\* a rule body that does nothing
Pass(calc) == [ok |-> TRUE, adv |-> <<>>, parameters |-> calc.parameters]
\* print(msg) or warnings.warn(msg): the advisory is issued, nothing is raised
Advise(calc, msg) == [ok |-> TRUE, adv |-> <<msg>>, parameters |-> calc.parameters]
\* a; b  -- b runs only when a did not raise
Then(a, b) ==
    IF a.ok THEN [ok |-> b.ok, adv |-> a.adv \o b.adv, parameters |-> b.parameters]
    ELSE a

\* calc.parameters.get(key, default): reads, never inserts.
DictGet(params, key, default) == IF key \in DOMAIN params THEN params[key] ELSE default

\* [n1, ..., nk] as a Python list literal of ints
Ints(ns) == [i \in 1..Len(ns) |-> PyInt(ns[i])]

\* The context a rule is called with.
Calc == [parameters |-> parameters, atoms |-> atom_symbols, neb |-> neb,
         valence |-> valence]

(***************************************************************************)
(* The rules of vasp/validate.py, in the order of the file.                *)
(***************************************************************************)
algo_names ==
    << PyStr(<<"N","o","r","m","a","l">>),
       PyStr(<<"V","e","r","y","F","a","s","t">>),
       PyStr(<<"F","a","s","t">>),
       PyStr(<<"C","o","n","j","u","g","a","t","e">>),
       PyStr(<<"A","l","l">>),
       PyStr(<<"D","a","m","p","e","d">>),
       PyStr(<<"S","u","b","r","o","t">>),
       PyStr(<<"E","i","g","e","n","v","a","l">>),
       PyStr(<<"N","o","n","e">>),
       PyStr(<<"N","o","t","h","i","n","g">>),
       PyStr(<<"C","H","I">>),
       PyStr(<<"G","W","0">>),
       PyStr(<<"G","W">>),
       PyStr(<<"s","c","G","W","0">>),
       PyStr(<<"s","c","G","W">>) >>

algo(calc, val) ==
    Then(Check(calc, IsStr(val)),
         Check(calc, PyIn(PyStr(Lower(val.str)),
                          [i \in 1..Len(algo_names) |-> PyStr(Lower(algo_names[i].str))])))

atoms(calc, val) == Check(calc, val.kind = "Atoms" \/ IsList(val))

dipol(calc, val) == Check(calc, IsList(val))

eb_k(calc, val) == Check(calc, IsFloat(val))

ediff(calc, val) == Check(calc, IsFloat(val) \/ PyEq(val, PyInt(0)))

ediffg(calc, val) == Check(calc, IsFloat(val) \/ PyEq(val, PyInt(0)))

efield(calc, val) == Check(calc, IsFloat(val) \/ IsInt(val))

\* encut with the bound off by one: val >= 0
encut_nonnegative(calc, val) ==
    Then(IF IsNumber(val) THEN Check(calc, val.num >= 0) ELSE Raise(calc),
         Check(calc, IsInt(val) \/ IsFloat(val)))

\* val > 0 is evaluated first: it raises TypeError for a value that has no
\* order against a number.
encut(calc, val) ==
    Then(IF IsNumber(val) THEN Check(calc, val.num > 0) ELSE Raise(calc),
         Check(calc, IsInt(val) \/ IsFloat(val)))

gamma(calc, val) ==
    Then(Check(calc, IsList(val)), Check(calc, PyLen(val) = 3))

gga_names ==
    << PyStr(<<"9","1">>), PyStr(<<"P","E">>), PyStr(<<"R","P">>),
       PyStr(<<"A","M">>), PyStr(<<"P","S">>), PyStr(<<"R","E">>),
       PyStr(<<"O","R">>), PyStr(<<"B","O">>), PyStr(<<"M","K">>),
       PyStr(<<"M","L">>), PyStr(<<"B","F">>), PyStr(<<"B","3">>) >>

gga(calc, val) ==
    Then(Check(calc, IsStr(val)), Check(calc, PyIn(val, gga_names)))

ialgo_values ==
    Ints(<<-1, 2, 3, 4, 5, 6, 7, 8, 15, 16, 17, 18, 28, 38, 44, 45, 46, 47, 48,
           53, 54, 55, 56, 57, 58>>)

ialgo(calc, val) ==
    Then(Advise(calc, "You are advised to use the algo key instead of ialgo."),
         Then(Check(calc, IsInt(val)), Check(calc, PyIn(val, ialgo_values))))

ibrion_values == Ints(<<-1, 0, 1, 2, 3, 5, 6, 7, 8, 44>>)

ibrion(calc, val) == Check(calc, PyIn(val, ibrion_values))

icharg(calc, val) == Check(calc, IsInt(val))

idipol_values == Ints(<<1, 2, 3, 4>>)

idipol(calc, val) == Check(calc, PyIn(val, idipol_values))

images(calc, val) ==
    Then(Check(calc, IsInt(val)), Check(calc, val.num = Len(calc.neb) - 2))

isif_values == Ints(<<0, 1, 2, 3, 4, 5, 6, 7>>)

isif(calc, val) == Check(calc, PyIn(val, isif_values))

ismear_values == Ints(<<-5, -4, -3, -2, -1, 0, 1, 2>>)

ismear(calc, val) == Check(calc, PyIn(val, ismear_values))

\* ispin without the comparison of len(magmom) with len(atoms)
ispin_unchecked_length(calc, val) ==
    Then(Check(calc, PyIn(val, Ints(<<1, 2>>))),
         IF PyEq(val, PyInt(2))
         THEN Check(calc, "magmom" \in DOMAIN calc.parameters)
         ELSE Pass(calc))

\* len(calc.parameters['magmom']) raises TypeError when magmom has no length.
ispin(calc, val) ==
    Then(Check(calc, PyIn(val, Ints(<<1, 2>>))),
         IF PyEq(val, PyInt(2))
         THEN Then(Check(calc, "magmom" \in DOMAIN calc.parameters),
                   LET m == DictGet(calc.parameters, "magmom", NoneVal)
                   IN  IF HasLen(m) THEN Check(calc, PyLen(m) = Len(calc.atoms))
                       ELSE Raise(calc))
         ELSE Pass(calc))

isym_values == Ints(<<-1, 0, 1, 2, 3>>)

isym(calc, val) == Check(calc, PyIn(val, isym_values))

ivdw_values == Ints(<<0, 1, 10, 11, 12, 2, 21, 202, 4>>)

ivdw(calc, val) == Check(calc, PyIn(val, ivdw_values))

ldau_values == <<PyBool(TRUE), PyBool(FALSE), NoneVal>>

ldau(calc, val) == Check(calc, PyIn(val, ldau_values))

\* set([a.symbol for a in calc.get_atoms()])
Symbols(calc) == {calc.atoms[i] : i \in 1..Len(calc.atoms)}

\* ldau_luj counting the atoms instead of the distinct symbols
ldau_luj_per_atom(calc, val) ==
    Then(Check(calc, IsDict(val)),
         Check(calc, Cardinality(val.keys) = Len(calc.atoms)))

ldau_luj(calc, val) ==
    Then(Check(calc, IsDict(val)),
         Check(calc, Cardinality(val.keys) = Cardinality(Symbols(calc))))

ldauprint_values == Ints(<<0, 1, 2>>)

ldauprint(calc, val) == Check(calc, PyIn(val, ldauprint_values))

\* The body of ldautype is its docstring alone.
ldautype(calc, val) == Pass(calc)

lmaxmix_values == Ints(<<2, 4, 6>>)

lmaxmix(calc, val) == Check(calc, PyIn(val, lmaxmix_values))

kpts(calc, val) == Check(calc, IsList(val))

kpts_nintersections(calc, val) == Check(calc, IsInt(val))

kspacing(calc, val) == Check(calc, IsFloat(val))

true_false == <<PyBool(TRUE), PyBool(FALSE)>>

lcharg(calc, val) == Check(calc, PyIn(val, true_false))

ldipol(calc, val) == Check(calc, PyIn(val, true_false))

\* val < 10 is evaluated first: it raises TypeError for a value that has no
\* order against a number.
lorbit(calc, val) ==
    IF ~IsNumber(val) THEN Raise(calc)
    ELSE Then(IF val.num < 10 THEN Check(calc, "rwigs" \in DOMAIN calc.parameters)
              ELSE Pass(calc),
              Check(calc, IsInt(val)))

lsol(calc, val) == Check(calc, PyIn(val, true_false))

lreal_values ==
    << PyBool(TRUE), PyBool(FALSE), PyStr(<<"O","n">>), PyStr(<<"A","u","t","o">>),
       PyStr(<<"O">>), PyStr(<<"A">>) >>

lreal(calc, val) == Check(calc, PyIn(val, lreal_values))

lvtot(calc, val) == Check(calc, PyIn(val, true_false))

lvhar(calc, val) == Check(calc, PyIn(val, true_false))

lwave(calc, val) == Check(calc, PyIn(val, true_false))

magmom(calc, val) ==
    Then(Check(calc, IsList(val)), Check(calc, PyLen(val) = Len(calc.atoms)))

maxmix(calc, val) == Check(calc, IsInt(val))

\* val > calc.get_valence_electrons() / 2
nbands(calc, val) ==
    Then(Check(calc, IsInt(val)), Check(calc, 2 * val.num > calc.valence))

ncore(calc, val) == Check(calc, IsInt(val))

nelm(calc, val) == Check(calc, IsInt(val))

nupdown(calc, val) == Check(calc, IsInt(val) \/ IsFloat(val))

nsim(calc, val) == Check(calc, IsInt(val))

nsw(calc, val) == Check(calc, IsInt(val))

potim(calc, val) == Check(calc, IsFloat(val))

pp_names == <<PyStr(<<"P","B","E">>), PyStr(<<"L","D","A">>), PyStr(<<"G","G","A">>)>>

pp(calc, val) == Check(calc, PyIn(val, pp_names))

prec_names ==
    << PyStr(<<"l","o","w">>), PyStr(<<"m","e","d","i","u","m">>),
       PyStr(<<"h","i","g","h">>), PyStr(<<"n","o","r","m","a","l">>),
       PyStr(<<"a","c","c","u","r","a","t","e">>),
       PyStr(<<"s","i","n","g","l","e">>) >>

\* val.lower() raises AttributeError for a value that is not a str.
prec(calc, val) ==
    IF ~IsStr(val) THEN Raise(calc)
    ELSE Check(calc, PyIn(PyStr(Lower(val.str)), prec_names))

reciprocal(calc, val) == Check(calc, PyIn(val, true_false))

\* rwigs reading lorbit with calc.parameters.setdefault('lorbit', 0), which
\* inserts the default
rwigs_setdefault(calc, val) ==
    Then(Check(calc, IsDict(val)),
         LET l == DictGet(calc.parameters, "lorbit", PyInt(0))
             r == IF IsNumber(l) THEN Check(calc, l.num < 10) ELSE Raise(calc)
         IN  [r EXCEPT !.parameters =
                  [k \in (DOMAIN calc.parameters) \cup {"lorbit"} |->
                      IF k \in DOMAIN calc.parameters THEN calc.parameters[k]
                      ELSE PyInt(0)]])

\* calc.parameters.get('lorbit', 0) < 10 raises TypeError when the stored
\* lorbit has no order against a number.
rwigs(calc, val) ==
    Then(Check(calc, IsDict(val)),
         LET l == DictGet(calc.parameters, "lorbit", PyInt(0))
         IN  IF IsNumber(l) THEN Check(calc, l.num < 10) ELSE Raise(calc))

\* for s, suffix in val: each element is unpacked into two; an element that
\* does not unpack into exactly two raises.  A str of two characters unpacks
\* into two str, a dict of two keys into its two keys (str).
SetupOk(e) ==
    CASE e.kind = "list" ->
           /\ Len(e.items) = 2
           /\ IsInt(e.items[1]) \/ IsStr(e.items[1])
           /\ IsStr(e.items[2])
      [] e.kind = "str" -> Len(e.str) = 2
      [] e.kind = "dict" -> Cardinality(e.keys) = 2
      [] OTHER -> FALSE

setups(calc, val) ==
    Then(Check(calc, IsList(val)),
         Check(calc, \A i \in 1..Len(val.items) : SetupOk(val.items[i])))

sigma(calc, val) ==
    Then(Check(calc, IsFloat(val)), Check(calc, val.num > 0))

\* spring asserting ibrion in [1, 3] instead of warning
spring_strict(calc, val) ==
    Then(Check(calc, IsInt(val) \/ IsFloat(val)),
         Check(calc, PyIn(DictGet(calc.parameters, "ibrion", NoneVal), Ints(<<1, 3>>))))

spring(calc, val) ==
    Then(Check(calc, IsInt(val) \/ IsFloat(val)),
         IF ~PyIn(DictGet(calc.parameters, "ibrion", NoneVal), Ints(<<1, 3>>))
         THEN Advise(calc, "ibrion should be 1 or 3.")
         ELSE Pass(calc))

\* The keys of vasp.Vasp.xc_defaults, which the rule reads; the table itself
\* is defined by the calculator class.
xc_defaults ==
    { <<"l","d","a">>, <<"g","g","a">>, <<"p","b","e">> }

\* val.lower() raises AttributeError for a value that is not a str.
xc(calc, val) ==
    IF ~IsStr(val) THEN Raise(calc)
    ELSE Check(calc, Lower(val.str) \in xc_defaults)

(***************************************************************************)
(* The registry: the functions of the module that take (calc, val), and    *)
(* the call of one by its name.                                            *)
(***************************************************************************)
RuleNames ==
    { "algo", "atoms", "dipol", "eb_k", "ediff", "ediffg", "efield",
      "encut", "gamma", "gga", "ialgo", "ibrion", "icharg", "idipol",
      "images", "isif", "ismear", "ispin", "isym", "ivdw", "ldau",
      "ldau_luj", "ldauprint", "ldautype", "lmaxmix", "kpts",
      "kpts_nintersections", "kspacing", "lcharg", "ldipol", "lorbit",
      "lsol", "lreal", "lvtot", "lvhar", "lwave", "magmom", "maxmix",
      "nbands", "ncore", "nelm", "nupdown", "nsim", "nsw", "potim", "pp",
      "prec", "reciprocal", "rwigs", "setups", "sigma", "spring", "xc" }

Rule(name, calc, val) ==
    CASE name = "algo" -> algo(calc, val)
      [] name = "atoms" -> atoms(calc, val)
      [] name = "dipol" -> dipol(calc, val)
      [] name = "eb_k" -> eb_k(calc, val)
      [] name = "ediff" -> ediff(calc, val)
      [] name = "ediffg" -> ediffg(calc, val)
      [] name = "efield" -> efield(calc, val)
      [] name = "encut" -> encut(calc, val)
      [] name = "gamma" -> gamma(calc, val)
      [] name = "gga" -> gga(calc, val)
      [] name = "ialgo" -> ialgo(calc, val)
      [] name = "ibrion" -> ibrion(calc, val)
      [] name = "icharg" -> icharg(calc, val)
      [] name = "idipol" -> idipol(calc, val)
      [] name = "images" -> images(calc, val)
      [] name = "isif" -> isif(calc, val)
      [] name = "ismear" -> ismear(calc, val)
      [] name = "ispin" -> ispin(calc, val)
      [] name = "isym" -> isym(calc, val)
      [] name = "ivdw" -> ivdw(calc, val)
      [] name = "ldau" -> ldau(calc, val)
      [] name = "ldau_luj" -> ldau_luj(calc, val)
      [] name = "ldauprint" -> ldauprint(calc, val)
      [] name = "ldautype" -> ldautype(calc, val)
      [] name = "lmaxmix" -> lmaxmix(calc, val)
      [] name = "kpts" -> kpts(calc, val)
      [] name = "kpts_nintersections" -> kpts_nintersections(calc, val)
      [] name = "kspacing" -> kspacing(calc, val)
      [] name = "lcharg" -> lcharg(calc, val)
      [] name = "ldipol" -> ldipol(calc, val)
      [] name = "lorbit" -> lorbit(calc, val)
      [] name = "lsol" -> lsol(calc, val)
      [] name = "lreal" -> lreal(calc, val)
      [] name = "lvtot" -> lvtot(calc, val)
      [] name = "lvhar" -> lvhar(calc, val)
      [] name = "lwave" -> lwave(calc, val)
      [] name = "magmom" -> magmom(calc, val)
      [] name = "maxmix" -> maxmix(calc, val)
      [] name = "nbands" -> nbands(calc, val)
      [] name = "ncore" -> ncore(calc, val)
      [] name = "nelm" -> nelm(calc, val)
      [] name = "nupdown" -> nupdown(calc, val)
      [] name = "nsim" -> nsim(calc, val)
      [] name = "nsw" -> nsw(calc, val)
      [] name = "potim" -> potim(calc, val)
      [] name = "pp" -> pp(calc, val)
      [] name = "prec" -> prec(calc, val)
      [] name = "reciprocal" -> reciprocal(calc, val)
      [] name = "rwigs" -> rwigs(calc, val)
      [] name = "setups" -> setups(calc, val)
      [] name = "sigma" -> sigma(calc, val)
      [] name = "spring" -> spring(calc, val)
      [] name = "xc" -> xc(calc, val)

(***************************************************************************)
(* Inputs: the values a rule is called with and the contexts it reads.     *)
(***************************************************************************)
SymbolSet == {"Mn", "O"}

\* a list of n floats, as a magmom list is
FloatList(n) == PyList([i \in 1..n |-> PyFloat(1)])

Values ==
    {PyInt(n) : n \in {-5, -1, 0, 1, 2, 3, 9, 10, 11, 520}}
    \cup {PyFloat(n) : n \in {-5, 0, 1, 2, 520}}
    \cup {PyBool(TRUE), PyBool(FALSE), NoneVal, AtomsObj}
    \cup {PyStr(<<"F","a","s","t">>), PyStr(<<"f","a","s","t">>),
          PyStr(<<"P","E">>), PyStr(<<"p","e">>), PyStr(<<"P","B","E">>),
          PyStr(<<"L","o","w">>), PyStr(<<"A","u","t","o">>),
          PyStr(<<"N","O","R","M","A","L">>), PyStr(<<"o","n">>),
          PyStr(<<"a","b","c">>)}
    \cup {FloatList(n) : n \in 0..(MaxAtoms + 1)}
    \cup {PyList(<<PyList(<<PyStr(<<"O">>), PyStr(<<"_","s">>)>>)>>)}
    \cup {PyDict(ks) : ks \in SUBSET SymbolSet}

\* calc.parameters with nothing set
NoParameters == [k \in {} |-> NoneVal]

\* the structures of up to MaxAtoms atoms
AtomSeqs == UNION {[1..n -> SymbolSet] : n \in 0..MaxAtoms}

\* magmom unset, or a list of any length up to MaxAtoms
MagmomParameters ==
    {NoParameters} \cup {[k \in {"magmom"} |-> FloatList(n)] : n \in 0..MaxAtoms}

\* any of lorbit, rwigs and ibrion set
OrbitParameters ==
    { [k \in K |-> CASE k = "lorbit" -> l
                     [] k = "rwigs" -> PyDict({"Mn"})
                     [] OTHER -> b] :
        K \in SUBSET {"lorbit", "rwigs", "ibrion"},
        l \in {PyInt(9), PyInt(11)},
        b \in {PyInt(1), PyInt(2)} }

\* a band of n images
Band(n) == [i \in 1..n |-> "image"]

CallInit ==
    /\ pc = "idle" /\ rule = "" /\ value = NoneVal /\ ok = TRUE /\ adv = <<>>
    /\ again = FALSE

\* A calculator with some parameters set and a structure attached.
CalcInit ==
    \/ /\ parameters \in MagmomParameters
       /\ atom_symbols \in AtomSeqs
       /\ neb = Band(3) /\ valence = 8
    \/ /\ parameters \in OrbitParameters
       /\ atom_symbols = <<"Mn", "O">>
       /\ neb = Band(3) /\ valence = 8
    \/ /\ parameters = NoParameters
       /\ atom_symbols = <<"Mn", "O">>
       /\ neb \in {Band(0), Band(3)} /\ valence \in {0, 8}

(***************************************************************************)
(* Calling a rule.                                                         *)
(***************************************************************************)
\* validate.<name>(calc, val): the rule runs against the calculator as it is.
Validate ==
    /\ pc = "idle"
    /\ \E name \in RuleNames, val \in Values :
          LET r == Rule(name, Calc, val)
          IN  /\ ok' = r.ok
              /\ adv' = r.adv
              /\ parameters' = r.parameters
              /\ rule' = name /\ value' = val
    /\ pc' = "done" /\ again' = FALSE
    /\ UNCHANGED <<atom_symbols, neb, valence>>
    /\ UNCHANGED patchVars /\ UNCHANGED introVars

\* The same rule is called again with the same value.
Revalidate ==
    /\ pc = "done" /\ ~again
    /\ LET r == Rule(rule, Calc, value)
       IN  /\ ok' = r.ok
           /\ adv' = r.adv
           /\ parameters' = r.parameters
    /\ again' = TRUE
    /\ UNCHANGED <<pc, rule, value, atom_symbols, neb, valence>>
    /\ UNCHANGED patchVars /\ UNCHANGED introVars

\* The caller is done with the outcome.
Return ==
    /\ pc = "done"
    /\ pc' = "idle" /\ rule' = "" /\ value' = NoneVal /\ ok' = TRUE /\ adv' = <<>>
    /\ again' = FALSE
    /\ UNCHANGED calcVars /\ UNCHANGED patchVars /\ UNCHANGED introVars

(***************************************************************************)
(* The calculator: a keyword is stored when its rule accepts the value.    *)
(***************************************************************************)
Store(params, key, val) ==
    [k \in (DOMAIN params) \cup {key} |-> IF k = key THEN val ELSE params[k]]

\* The keywords the calculator is assigned.
CalcKeys == {"lorbit", "rwigs"}

\* calc.set(key=val): look the rule up by name, call it with the calculator
\* and the value, store the value unless the rule raised.
Set ==
    /\ pc = "idle"
    /\ \E key \in CalcKeys, val \in Values :
          LET r == Rule(key, Calc, val)
          IN  /\ ok' = r.ok
              /\ adv' = r.adv
              /\ parameters' = IF r.ok THEN Store(r.parameters, key, val)
                               ELSE r.parameters
              /\ rule' = key /\ value' = val
    /\ pc' = "done" /\ again' = FALSE
    /\ UNCHANGED <<atom_symbols, neb, valence>>
    /\ UNCHANGED patchVars /\ UNCHANGED introVars

PatchIdle ==
    attrs = <<>> /\ doc = <<>> /\ applied = <<>> /\ returned = "" /\ npatch = 0
IntroIdle == scan = 0 /\ helper = "" /\ functions = <<>> /\ output = <<>>

Init == CalcInit /\ CallInit /\ PatchIdle /\ IntroIdle

Next ==
    \/ Validate
    \/ Revalidate
    \/ Return

Spec == Init /\ [][Next]_vars

\* A calculator that starts with no parameters.
InitCalc ==
    /\ parameters = NoParameters
    /\ atom_symbols = <<"Mn", "O">> /\ neb = Band(3) /\ valence = 8
    /\ CallInit /\ PatchIdle /\ IntroIdle

NextCalc ==
    \/ Set
    \/ Return

SpecCalc == InitCalc /\ [][NextCalc]_vars

(***************************************************************************)
(* Properties of the rules.                                                *)
(***************************************************************************)
Called(name) == pc = "done" /\ rule = name

\* val == n, for a number n
IsValue(val, n) == IsNumber(val) /\ val.num = n

\* C1: the ispin rule succeeds for the value 1 whatever the context; for the
\* value 2 it succeeds exactly when 'magmom' is a key of calc.parameters and
\* the length of the magmom list is the number of atoms; it fails for every
\* other value.
C1_IspinRule ==
    Called("ispin") =>
        ok = \/ IsValue(value, 1)
             \/ /\ IsValue(value, 2)
                /\ "magmom" \in DOMAIN parameters
                /\ Len(parameters["magmom"].items) = Len(atom_symbols)

\* ispin = 2 accepted with a magmom list of two entries and two atoms
C1_Witness ==
    /\ Called("ispin") /\ value = PyInt(2) /\ ok
    /\ "magmom" \in DOMAIN parameters
    /\ Len(parameters["magmom"].items) = 2 /\ Len(atom_symbols) = 2

\* C5: the ldau_luj rule succeeds exactly when the value is a mapping whose
\* number of keys is the number of distinct chemical symbols of the atoms.
C5_LdauLujRule ==
    Called("ldau_luj") =>
        ok = /\ value.kind = "dict"
             /\ Cardinality(value.keys) =
                    Cardinality({atom_symbols[i] : i \in 1..Len(atom_symbols)})

\* a one-key mapping accepted for two atoms of the same species
C5_Witness ==
    /\ Called("ldau_luj") /\ ok
    /\ atom_symbols = <<"Mn", "Mn">> /\ value = PyDict({"Mn"})

\* C6: the encut rule accepts every int or float greater than zero and
\* rejects every number less than or equal to zero, in every context.
C6_EncutRule ==
    Called("encut") =>
        /\ (value.kind \in {"int", "float"} /\ value.num > 0) => ok
        /\ (IsNumber(value) /\ value.num <= 0) => ~ok

\* encut = 520.0 accepted
C6_Witness == Called("encut") /\ value = PyFloat(520) /\ ok

\* C7: a rule call, whether it succeeds or fails, leaves calc.parameters and
\* the atoms as they were, and calling the same rule again with the same
\* value gives the outcome of the first call.
C7_RulesArePure ==
    [][pc' = "done" =>
          /\ parameters' = parameters
          /\ atom_symbols' = atom_symbols
          /\ (pc = "done" => (rule' = rule /\ value' = value /\ ok' = ok))]_vars

\* rwigs rejected twice in a row against a stored lorbit of 11
C7_Witness ==
    /\ Called("rwigs") /\ again /\ ~ok /\ value = PyDict({"Mn"})
    /\ "lorbit" \in DOMAIN parameters /\ parameters["lorbit"] = PyInt(11)

(***************************************************************************)
(* The kind each docstring documents for its keyword's value, in the       *)
(* kinds of values a configuration has: numeric (int, float), string,      *)
(* boolean, list, mapping; "object" is an ase.atoms.Atoms.  A rule whose   *)
(* docstring names no kind (isym, lorbit, spring) documents every kind.    *)
(***************************************************************************)
KindOf(val) ==
    CASE val.kind \in {"int", "float"} -> "numeric"
      [] val.kind = "bool" -> "boolean"
      [] val.kind = "str" -> "string"
      [] val.kind = "list" -> "list"
      [] val.kind = "dict" -> "mapping"
      [] val.kind = "Atoms" -> "object"
      [] OTHER -> "none"

AllKinds == {"numeric", "boolean", "string", "list", "mapping", "object", "none"}

DocumentedKinds(name) ==
    CASE name \in {"algo", "gga", "pp", "prec", "xc"} -> {"string"}
      [] name = "atoms" -> {"object", "list"}
      [] name \in {"dipol", "gamma", "kpts", "magmom", "setups"} -> {"list"}
      [] name \in {"eb_k", "ediff", "ediffg", "efield", "encut", "kspacing",
                   "potim", "sigma", "nupdown"} -> {"numeric"}
      [] name \in {"ialgo", "ibrion", "icharg", "idipol", "images", "isif",
                   "ismear", "ispin", "ivdw", "ldauprint", "ldautype",
                   "lmaxmix", "kpts_nintersections", "maxmix", "nbands",
                   "ncore", "nelm", "nsim", "nsw"} -> {"numeric"}
      [] name \in {"ldau", "lcharg", "ldipol", "lsol", "lreal", "lvtot",
                   "lvhar", "lwave", "reciprocal"} -> {"boolean"}
      [] name \in {"ldau_luj", "rwigs"} -> {"mapping"}
      [] OTHER -> AllKinds

\* C3: no rule accepts a value whose kind is not the kind documented for
\* its keyword.
C3_WrongKindFails ==
    (pc = "done" /\ KindOf(value) \notin DocumentedKinds(rule)) => ~ok

(***************************************************************************)
(* The enumerated-domain rules and the fixed list each one tests.          *)
(***************************************************************************)
BooleanFlags == {"lcharg", "ldipol", "lsol", "lvtot", "lvhar", "lwave", "reciprocal"}

EnumRules ==
    {"algo", "gga", "ialgo", "ibrion", "idipol", "isif", "ismear", "isym",
     "ivdw", "ldau", "ldauprint", "lmaxmix", "lreal", "pp", "prec"}
    \cup BooleanFlags

AllowedValues(name) ==
    CASE name = "algo" -> algo_names
      [] name = "gga" -> gga_names
      [] name = "ialgo" -> ialgo_values
      [] name = "ibrion" -> ibrion_values
      [] name = "idipol" -> idipol_values
      [] name = "isif" -> isif_values
      [] name = "ismear" -> ismear_values
      [] name = "isym" -> isym_values
      [] name = "ivdw" -> ivdw_values
      [] name = "ldau" -> ldau_values
      [] name = "ldauprint" -> ldauprint_values
      [] name = "lmaxmix" -> lmaxmix_values
      [] name = "lreal" -> lreal_values
      [] name = "pp" -> pp_names
      [] name = "prec" -> prec_names
      [] OTHER -> true_false

\* val is one of the allowed values: the same kind of value and the same
\* value, a str compared without regard to case for algo and prec.
Belongs(name, val) ==
    \E i \in 1..Len(AllowedValues(name)) :
        LET x == AllowedValues(name)[i]
        IN  IF name \in {"algo", "prec"}
            THEN val.kind = "str" /\ x.kind = "str" /\ Lower(val.str) = Lower(x.str)
            ELSE val = x

\* C4: an enumerated-domain rule accepts a value exactly when the value
\* belongs to the rule's allowed set.
C4_EnumAcceptsExactlyAllowed ==
    (pc = "done" /\ rule \in EnumRules) => (ok = Belongs(rule, value))

C10_LorbitRwigsConsistent ==
    /\ ~ /\ "rwigs" \in DOMAIN parameters
         /\ "lorbit" \in DOMAIN parameters
         /\ parameters["lorbit"].num >= 10
    /\ ~ /\ "lorbit" \in DOMAIN parameters
         /\ parameters["lorbit"].num < 10
         /\ "rwigs" \notin DOMAIN parameters

(***************************************************************************)
(* vasp/monkeypatch.py: the decorator that installs a function on a class. *)
(* A function is known by an identifier; its __name__ and the file and     *)
(* line of its code object are fixed, its __doc__ is state.                *)
(***************************************************************************)
Classes == {"Vasp", "Atoms"}

\* The functions of the model: run0 is the method Vasp.run the class is
\* defined with, the others are the functions the decorator is applied to.
FunctionIds == {"run0", "greet1", "greet2", "run3"}
Decorated == {"greet1", "greet2", "run3"}

func_name ==
    [f \in FunctionIds |->
        CASE f \in {"greet1", "greet2"} -> "some_func"
          [] OTHER -> "run"]

co_filename ==
    [f \in FunctionIds |->
        CASE f = "run0" -> "vasp_core.py"
          [] f = "run3" -> "runner.py"
          [] OTHER -> "patches.py"]

co_firstlineno ==
    [f \in FunctionIds |->
        CASE f = "run0" -> 40
          [] f = "greet1" -> 4
          [] f = "greet2" -> 9
          [] OTHER -> 12]

\* A __doc__: None or a str.
NoDoc == [none |-> TRUE, text |-> ""]
DocOf(text) == [none |-> FALSE, text |-> text]

\* s.format(f=func)
Provenance(func) ==
    "\n\nMonkey-patch defined in " \o co_filename[func] \o " at line "
        \o ToString(co_firstlineno[func])

\* the decorator overwriting __doc__ where the code appends to it
PatchedDoc_overwrite(d, func) == DocOf(Provenance(func))

\* if func.__doc__ is None: func.__doc__ = ''
\* func.__doc__ += s.format(f=func)
PatchedDoc(d, func) == DocOf((IF d.none THEN "" ELSE d.text) \o Provenance(func))

\* setattr(cls, name, func)
SetAttr(a, cls, name, func) ==
    [a EXCEPT ![cls] =
        [n \in (DOMAIN a[cls]) \cup {name} |-> IF n = name THEN func ELSE a[cls][n]]]

\* monkeypatch_class(cls)(func)
Decorate ==
    /\ npatch < MaxPatches
    /\ \E cls \in Classes, func \in Decorated :
          /\ attrs' = SetAttr(attrs, cls, func_name[func], func)
          /\ doc' = [doc EXCEPT ![func] = PatchedDoc(doc[func], func)]
          /\ applied' = <<cls, func>>
          /\ returned' = func
    /\ npatch' = npatch + 1
    /\ UNCHANGED calcVars /\ UNCHANGED callVars /\ UNCHANGED introVars

\* Vasp is defined with a method run; greet1 has no docstring.
InitPatch ==
    /\ attrs = [c \in Classes |->
                   IF c = "Vasp" THEN [n \in {"run"} |-> "run0"]
                   ELSE [n \in {} |-> ""]]
    /\ doc = [f \in FunctionIds |->
                 CASE f = "run0" -> DocOf("Run the calculation.")
                   [] f = "greet1" -> NoDoc
                   [] f = "greet2" -> DocOf("Return a greeting.")
                   [] OTHER -> DocOf("Run, then archive.")]
    /\ applied = <<>> /\ returned = "" /\ npatch = 0
    /\ parameters = NoParameters
    /\ atom_symbols = <<"Mn", "O">> /\ neb = Band(3) /\ valence = 8
    /\ CallInit /\ IntroIdle

NextPatch == Decorate

SpecPatch == InitPatch /\ [][NextPatch]_vars

\* C9: one application of the decorator binds the function on the class
\* under the function's own name (replacing what the name was bound to),
\* returns that function, appends the provenance text to its description (a
\* missing description counting as empty), and changes no other attribute of
\* that class or another and no other function's description.
C9_DecoratorEffect ==
    [][npatch' = npatch + 1 =>
          LET cls == applied'[1]
              func == applied'[2]
          IN  /\ attrs'[cls][func_name[func]] = func
              /\ returned' = func
              /\ doc'[func] = DocOf((IF doc[func].none THEN "" ELSE doc[func].text)
                                    \o "\n\nMonkey-patch defined in "
                                    \o co_filename[func] \o " at line "
                                    \o ToString(co_firstlineno[func]))
              /\ \A c \in Classes :
                    /\ DOMAIN attrs'[c] =
                          (DOMAIN attrs[c]) \cup (IF c = cls THEN {func_name[func]} ELSE {})
                    /\ \A n \in DOMAIN attrs[c] :
                          (c # cls \/ n # func_name[func]) => attrs'[c][n] = attrs[c][n]
              /\ \A g \in FunctionIds \ {func} : doc'[g] = doc[g]]_vars

\* run3 replaced the method Vasp.run and carries its description followed by
\* the provenance; greet1, which had no description, carries the provenance
\* alone
C9_Witness ==
    /\ attrs["Vasp"]["run"] = "run3" /\ returned = "run3"
    /\ doc["run3"].text =
          "Run, then archive.\n\nMonkey-patch defined in runner.py at line 12"
    /\ doc["greet1"].text = "\n\nMonkey-patch defined in patches.py at line 4"
    /\ "some_func" \in DOMAIN attrs["Atoms"]

(***************************************************************************)
(* The introspection helpers of vasp/validate.py.                          *)
(***************************************************************************)
\* dir(validate): the names of the module's namespace, sorted.
ModuleDir ==
    << "__builtins__", "__cached__", "__doc__", "__file__", "__loader__",
       "__name__", "__package__", "__spec__", "algo", "ase", "atoms",
       "basestring", "dipol", "eb_k", "ediff", "ediffg", "efield",
       "encut", "gamma", "gga", "ialgo", "ibrion", "icharg", "idipol",
       "images", "isif", "ismear", "ispin", "isym", "ivdw",
       "keyword_alist", "keywords", "kpts", "kpts_nintersections",
       "kspacing", "lcharg", "ldau", "ldau_luj", "ldauprint", "ldautype",
       "ldipol", "lmaxmix", "lorbit", "lreal", "lsol", "lvhar", "lvtot",
       "lwave", "magmom", "maxmix", "nbands", "ncore", "nelm", "nsim",
       "nsw", "nupdown", "potim", "pp", "prec", "reciprocal", "rwigs",
       "setups", "sigma", "spring", "types", "warnings", "xc" >>

\* The names bound to something that is not a function: the imported modules
\* and type, and the module's own attributes.
NotFunctions ==
    {"ase", "types", "warnings", "basestring", "__builtins__", "__cached__",
     "__doc__", "__file__", "__loader__", "__name__", "__package__", "__spec__"}

\* isinstance(validate.__dict__.get(a), types.FunctionType)
IsFunction(a) == a \notin NotFunctions

\* validate.__dict__[name].__doc__, line by line
Docstring(name) ==
    CASE name = "algo" ->
        << " specify the electronic minimisation algorithm (as of VASP.4.5) (string)",
           "",
           "    http://cms.mpi.univie.ac.at/wiki/index.php/ALGO",
           "",
           "    " >>
      [] name = "atoms" ->
        << "The Atoms object. (ase.atoms.Atoms or a list of them for an NEB)." >>
      [] name = "dipol" ->
        << "Specifies the center of the cell in direct lattice coordinates",
           "    with respect to which the total dipole-moment in the cell is calculated. (list)",
           "",
           "    https://cms.mpi.univie.ac.at/wiki/index.php/DIPOL",
           "    " >>
      [] name = "eb_k" ->
        << "The relative permittivity of the solvent used in the VASPsol code. (float)",
           "",
           "    https://github.com/henniggroup/VASPsol/blob/master/docs/USAGE.md",
           "    " >>
      [] name = "ediff" ->
        << "EDIFF specifies the global break condition for the electronic loop. (float)",
           "",
           "    http://cms.mpi.univie.ac.at/wiki/index.php/EDIFF",
           "    " >>
      [] name = "ediffg" ->
        << "EDIFFG defines the break condition for the ionic relaxation loop. (float)",
           "",
           "    If EDIFFG < 0, it defines a force criteria.",
           "",
           "    http://cms.mpi.univie.ac.at/wiki/index.php/EDIFFG",
           "    " >>
      [] name = "efield" ->
        << "EFIELD controls the size of the applied electric field. (float.)",
           "",
           "    http://cms.mpi.univie.ac.at/wiki/index.php/EFIELD",
           "    " >>
      [] name = "encut" ->
        << "Planewave cutoff in eV. (float)",
           "",
           "    http://cms.mpi.univie.ac.at/wiki/index.php/ENCUT",
           "    " >>
      [] name = "gamma" ->
        << "GAMMA sets the k-points to be gamma centered.",
           "",
           "    Value must be a list of length 3 representing the shift from the",
           "    gamma point.",
           "",
           "    For no shift, use [0, 0, 0]",
           "",
           "    " >>
      [] name = "gga" ->
        << "GGA sets the xc functional. (string)",
           "",
           "    https://cms.mpi.univie.ac.at/vasp/vasp/GGA_tag.html",
           "    " >>
      [] name = "ialgo" ->
        << "IALGO selects the algorithm used to optimize the orbitals. (int)",
           "",
           "    http://cms.mpi.univie.ac.at/wiki/index.php/IALGO",
           "",
           "    " >>
      [] name = "ibrion" ->
        << "IBRION determines the algorithm to update geometry during relaxtion. (int)",
           "",
           "    http://cms.mpi.univie.ac.at/wiki/index.php/IBRION",
           "",
           "    " >>
      [] name = "icharg" ->
        << "Determines how VASP constructs the initial charge density. (int)",
           "",
           "    0 - calculate from initial wave functions",
           "    1 - read from the CHGCAR",
           "    2 - (default) Superposition of atomic charge densities",
           "    11 - for band-structure plots",
           "",
           "    http://cms.mpi.univie.ac.at/wiki/index.php/ICHARG",
           "",
           "    " >>
      [] name = "idipol" ->
        << "IDIPOL switches on monopole/dipole and quadrupole corrections to the total energy.(int)",
           "",
           "    https://cms.mpi.univie.ac.at/wiki/index.php/IDIPOL",
           "",
           "    " >>
      [] name = "images" ->
        << "The number of images not counting the end-points for an NEB. (int)",
           "",
           "    http://cms.mpi.univie.ac.at/wiki/index.php/IMAGES",
           "",
           "    " >>
      [] name = "isif" ->
        << "ISIF determines what is changed during relaxations. (int)",
           "",
           "    | ISIF | calculate | calculate        | relax | change     | change      |",
           "    |      | force     | stress tensor    | ions  | cell shape | cell volume |",
           "    |------+-----------+------------------+-------+------------+-------------|",
           "    |    0 | yes       | no               | yes   | no         | no          |",
           "    |    1 | yes       | trace only $ ^*$ | yes   | no         | no          |",
           "    |    2 | yes       | yes              | yes   | no         | no          |",
           "    |    3 | yes       | yes              | yes   | yes        | yes         |",
           "    |    4 | yes       | yes              | yes   | yes        | no          |",
           "    |    5 | yes       | yes              | no    | yes        | no          |",
           "    |    6 | yes       | yes              | no    | yes        | yes         |",
           "    |    7 | yes       | yes              | no    | no         | yes         |",
           "",
           "    " >>
      [] name = "ismear" ->
        << "ISMEAR determines how the partial occupancies are set (int).",
           "",
           "    http://cms.mpi.univie.ac.at/wiki/index.php/ISMEAR",
           "",
           "    " >>
      [] name = "ispin" ->
        << "Control spin-polarization. (int)",
           "",
           "    1 - default, no spin polarization",
           "    2 - spin-polarization.",
           "",
           "    http://cms.mpi.univie.ac.at/wiki/index.php/ISPIN",
           "",
           "    " >>
      [] name = "isym" ->
        << "ISYM determines the way VASP treats symmetry.",
           "",
           "    http://cms.mpi.univie.ac.at/wiki/index.php/ISYM",
           "    " >>
      [] name = "ivdw" ->
        << "IVDW determines the approximate vdW correction methods used. (int)",
           "",
           "    0    - no correction",
           "    1|10 - DFT-D2 method of Grimme (available as of VASP.5.2.11)",
           "    11   - zero damping DFT-D3 method of Grimme (available as of VASP.5.3.4)",
           "    12   - DFT-D3 method with Becke-Jonson damping (available as of VASP.5.3.4)",
           "    2    - Tkatchenko-Scheffler method (available as of VASP.5.3.3)",
           "",
           "    21 - Tkatchenko-Scheffler method with iterative Hirshfeld",
           "    partitioning (available as of VASP.5.3.5)",
           "",
           "    202 - Many-body dispersion energy method (MBD@rSC) (available as",
           "    of VASP.5.4.1)",
           "",
           "    4 - dDsC dispersion correction method (available as of VASP.5.4.1)",
           "",
           "    http://cms.mpi.univie.ac.at/vasp/vasp/IVDW_approximate_vdW_correction_methods.html",
           "",
           "    " >>
      [] name = "ldau" ->
        << " LDAU switches on the L(S)DA+U. (bool)",
           "",
           "    http://cms.mpi.univie.ac.at/wiki/index.php/LDAU",
           "    " >>
      [] name = "ldau_luj" ->
        << "Dictionary of DFT+U parameters.",
           "",
           "    ldau_luj={'Mn': {'L': 2, 'U': 0.0, 'J': 0.0},",
           "              'O': {'L': -1, 'U': 0.0, 'J': 0.0}},",
           "    " >>
      [] name = "ldauprint" ->
        << "LDAUPRINT controls the verbosity of the L(S)DA+U routines. (int)",
           "",
           "    LDAUPRINT=0: silent.",
           "    LDAUPRINT=1: Write occupancy matrix to the OUTCAR file.",
           "    LDAUPRINT=2: same as LDAUPRINT=1, plus potential matrix dumped to stdout.",
           "",
           "    http://cms.mpi.univie.ac.at/wiki/index.php/LDAUPRINT",
           "    " >>
      [] name = "ldautype" ->
        << "LDAUTYPE specifies which type of L(S)DA+U approach will be used. (int)",
           "",
           "    LDAUTYPE=1: The rotationally invariant LSDA+U introduced by",
           "    Liechtenstein et al.[1]",
           "",
           "    LDAUTYPE=2: The simplified (rotationally invariant) approach to",
           "    the LSDA+U, introduced by Dudarev et al.[2]",
           "",
           "    1. A. I. Liechtenstein, V. I. Anisimov and J. Zaane, Phys. Rev. B",
           "    52, R5467 (1995).",
           "",
           "    2. S. L. Dudarev, G. A. Botton, S. Y. Savrasov, C. J. Humphreys",
           "    and A. P. Sutton, Phys. Rev. B 57, 1505 (1998).",
           "",
           "    http://cms.mpi.univie.ac.at/wiki/index.php/LDAUTYPE",
           "",
           "    " >>
      [] name = "lmaxmix" ->
        << "LMAXMIX the max l-quantum number the charge densities used. (int)",
           "",
           "    Mostly used for DFT+U.",
           "    4 for d-electrons (or 6 for f-elements)",
           "",
           "    http://cms.mpi.univie.ac.at/wiki/index.php/LMAXMIX",
           "    " >>
      [] name = "kpts" ->
        << "Sets k-points. Not a Vasp keyword. (list)" >>
      [] name = "kpts_nintersections" ->
        << "Triggers line mode in KPOINTS for bandstructure calculations. (int)",
           "",
           "    http://cms.mpi.univie.ac.at/vasp/vasp/Strings_k_points_bandstructure_calculations.html",
           "    " >>
      [] name = "kspacing" ->
        << "KSPACING determines the number of k-points if the KPOINTS file is",
           "    not present (float).",
           "",
           "    http://cms.mpi.univie.ac.at/vasp/vasp/KSPACING_tag_KGAMMA_tag.html",
           "",
           "    " >>
      [] name = "lcharg" ->
        << "LCHARG determines whether CHGCAR and CHG are written. (boolean)",
           "",
           "    http://cms.mpi.univie.ac.at/wiki/index.php/LCHARG",
           "",
           "    " >>
      [] name = "ldipol" ->
        << " LDIPOL switches on dipole-dipole interaction correction to the potential. (boolean)",
           "",
           "    http://cms.mpi.univie.ac.at/wiki/index.php/LDIPOL",
           "",
           "    " >>
      [] name = "lorbit" ->
        << "Determines whether the PROCAR or PROOUT files are written.",
           "",
           "    http://cms.mpi.univie.ac.at/wiki/index.php/LORBIT",
           "",
           "    " >>
      [] name = "lsol" ->
        << "LSOL determines whether the VASPsol is activated. (boolean)",
           "",
           "    https://github.com/henniggroup/VASPsol/blob/master/docs/USAGE.md",
           "    " >>
      [] name = "lreal" ->
        << "LREAL determines whether the projection operators are evaluated in",
           "    real-space or in reciprocal space. (boolean)",
           "",
           "    http://cms.mpi.univie.ac.at/wiki/index.php/LREAL",
           "",
           "    " >>
      [] name = "lvtot" ->
        << "LVTOT determines whether the total local potential is written to the LOCPOT file (boolean).",
           "",
           "    https://cms.mpi.univie.ac.at/wiki/index.php/LVTOT",
           "",
           "    " >>
      [] name = "lvhar" ->
        << " This tag determines whether the total local potential",
           "    (saved in the file LOCPOT contains the entire local potential",
           "    (ionic + Hartree + exchange correlation) or the electrostatic",
           "    contributions only (ionic + Hartree). (Boolean)",
           "",
           "    https://cms.mpi.univie.ac.at/wiki/index.php/LVHAR",
           "",
           "    " >>
      [] name = "lwave" ->
        << "LWAVE determines whether the WAVECAR is written. (Boolean)",
           "",
           "    http://cms.mpi.univie.ac.at/wiki/index.php/LWAVE",
           "",
           "    " >>
      [] name = "magmom" ->
        << "MAGMOM Specifies the initial magnetic moment for each atom. (list)",
           "",
           "    http://cms.mpi.univie.ac.at/wiki/index.php/MAGMOM",
           "",
           "    " >>
      [] name = "maxmix" ->
        << "MAXMIX specifies the maximum number steps stored in Broyden mixer",
           "    (IMIX=4). (int)",
           "",
           "    http://cms.mpi.univie.ac.at/wiki/index.php/MAXMIX",
           "",
           "    " >>
      [] name = "nbands" ->
        << "NBANDS determines the actual number of bands in the calculation. (int)",
           "",
           "    http://cms.mpi.univie.ac.at/wiki/index.php/NBANDS",
           "",
           "    " >>
      [] name = "ncore" ->
        << "NCORE determines the number of compute cores that work on an",
           "    individual orbital. (int)",
           "",
           "    http://cms.mpi.univie.ac.at/wiki/index.php/NCORE",
           "",
           "    " >>
      [] name = "nelm" ->
        << "NELM sets the maximum number of electronic SC (selfconsistency)",
           "    steps which may be performed. (int)",
           "",
           "    http://cms.mpi.univie.ac.at/wiki/index.php/NELM",
           "",
           "    " >>
      [] name = "nupdown" ->
        << "NUPDOWN = difference between number of spin up and down electrons.",
           "",
           "    This fixes the bulk magnetic moment.",
           "    The VASP manual specifies this should be an integer, but it",
           "    appears floats work too.",
           "",
           "    http://cms.mpi.univie.ac.at/vasp/vasp/NUPDOWN.html",
           "",
           "    " >>
      [] name = "nsim" ->
        << "NSIM sets the number of bands that are optimized simultaneously by the RMM-DIIS algorithm.(int)",
           "",
           "    http://cms.mpi.univie.ac.at/wiki/index.php/NSIM",
           "    " >>
      [] name = "nsw" ->
        << "NSW sets the maximum number of ionic steps. (int)",
           "",
           "    http://cms.mpi.univie.ac.at/wiki/index.php/NSW",
           "",
           "    " >>
      [] name = "potim" ->
        << "POTIM sets the time step (MD) or step width scaling (ionic",
           "    relaxations). (float)",
           "",
           "    http://cms.mpi.univie.ac.at/wiki/index.php/POTIM",
           "    " >>
      [] name = "pp" ->
        << "Determines where POTCARS are retrieved from. (string)" >>
      [] name = "prec" ->
        << "Specifies the Precision-mode. (string)",
           "",
           "    http://cms.mpi.univie.ac.at/wiki/index.php/PREC",
           "    " >>
      [] name = "reciprocal" ->
        << "Specifies reciprocal coordinates in KPOINTS. (boolean)",
           "",
           "    Not a Vasp keyword." >>
      [] name = "rwigs" ->
        << "RWIGS specifies the Wigner-Seitz radius for each atom type. (dict)",
           "",
           "    in vasp.py you enter a dictionary of {sym: radius}.",
           "",
           "    http://cms.mpi.univie.ac.at/wiki/index.php/RWIGS",
           "    " >>
      [] name = "setups" ->
        << "Sets up special setups for the POTCARS (list of (symbol/int, suffix)).",
           "",
           "    The first element of each pair of the list is either an integer",
           "    index of the atom for the special setup, or a chemical symbol for",
           "    all atoms of that type. The second element of the pair is a suffix",
           "    to be appended to the symbol. For example, to use the O_s potcar",
           "    set setups to: [['O', '_s']].",
           "",
           "    This is not a vasp keyword.",
           "",
           "    " >>
      [] name = "sigma" ->
        << "SIGMA determines the width of the smearing in eV. (float)" >>
      [] name = "spring" ->
        << "The Spring constant  in the elastic band method. -5 = NEB.",
           "",
           "    http://cms.mpi.univie.ac.at/wiki/index.php/SPRING",
           "    " >>
      [] name = "xc" ->
        << "Set exchange-correlation functional. (string)" >>
      [] name = "keywords" ->
        << "Return list of keywords we validate.",
           "",
           "    Returns a lisp list for Emacs.",
           "",
           "    " >>
      [] name = "keyword_alist" ->
        << "Returns an alist of (keyword . \"first doc string\").",
           "",
           "    Returns the alist for use in Emacs.",
           "",
           "    " >>

\* doc.split('\n')[0]
FirstLine(lines) == lines[1]

\* list.remove(x): without the first x
Remove(xs, x) ==
    LET i == CHOOSE j \in 1..Len(xs) : xs[j] = x /\ \A k \in 1..(j - 1) : xs[k] # x
    IN  [j \in 1..(Len(xs) - 1) |-> IF j < i THEN xs[j] ELSE xs[j + 1]]

\* the pieces of sep.join(xs)
Join(xs, sep) ==
    IF xs = <<>> THEN <<>>
    ELSE [i \in 1..(2 * Len(xs) - 1) |-> IF i % 2 = 1 THEN xs[(i + 1) \div 2] ELSE sep]

\* '"{}"'.format(x)
Quoted(x) == "\"" \o x \o "\""

\* keywords(), given the names of the functions found in the module: the
\* pieces of the returned string.
keywords(f) ==
    LET names == Remove(f, "keywords")
    IN  <<"(">> \o Join([i \in 1..Len(names) |-> Quoted(names[i])], " ") \o <<")">>

\* keyword_alist(), given the names of the functions found in the module
keyword_alist(f) ==
    LET names == Remove(Remove(f, "keywords"), "keyword_alist")
        docstrings == [i \in 1..Len(names) |-> FirstLine(Docstring(names[i]))]
        cons_cells == [i \in 1..Len(names) |->
                          "(\"" \o names[i] \o "\"  \"" \o docstrings[i] \o "\")"]
    IN  <<"(">> \o cons_cells \o <<")">>

Helpers == {"keywords", "keyword_alist"}

\* A helper is called.
Start ==
    /\ scan = 0
    /\ \E h \in Helpers : helper' = h
    /\ scan' = 1 /\ functions' = <<>> /\ output' = <<>>
    /\ UNCHANGED calcVars /\ UNCHANGED callVars /\ UNCHANGED patchVars

\* One round of the comprehension over dir(validate).
Scan ==
    /\ scan \in 1..Len(ModuleDir)
    /\ functions' = IF IsFunction(ModuleDir[scan]) THEN Append(functions, ModuleDir[scan])
                    ELSE functions
    /\ scan' = scan + 1
    /\ UNCHANGED <<helper, output>>
    /\ UNCHANGED calcVars /\ UNCHANGED callVars /\ UNCHANGED patchVars

\* The names are removed and the string is built and returned.
Finish ==
    /\ scan = Len(ModuleDir) + 1
    /\ output' = IF helper = "keywords" THEN keywords(functions)
                 ELSE keyword_alist(functions)
    /\ scan' = 0
    /\ UNCHANGED <<helper, functions>>
    /\ UNCHANGED calcVars /\ UNCHANGED callVars /\ UNCHANGED patchVars

InitIntro ==
    /\ IntroIdle /\ PatchIdle /\ CallInit
    /\ parameters = NoParameters
    /\ atom_symbols = <<"Mn", "O">> /\ neb = Band(3) /\ valence = 8

NextIntro == Start \/ Scan \/ Finish

SpecIntro == InitIntro /\ [][NextIntro]_vars

\* how many pieces of out are x
Count(x, out) == Cardinality({i \in 1..Len(out) : out[i] = x})

\* C2: the string keywords() returns names neither keywords nor
\* keyword_alist, and names every other function of the module once.
C2_KeywordsListsRulesOnly ==
    (helper = "keywords" /\ scan = 0) =>
        \A i \in 1..Len(ModuleDir) :
            LET a == ModuleDir[i]
            IN  IsFunction(a) =>
                    Count(Quoted(a), output) =
                        IF a \in {"keywords", "keyword_alist"} THEN 0 ELSE 1

====
